---- MODULE Spec2Model ----
(***************************************************************************)
(* Model of src/src/index.ts: the expiring cache (WeatherCache) and the    *)
(* weather gateway (WeatherAPI) that reads through it.                     *)
(*                                                                         *)
(* Two specifications share the variables:                                 *)
(*   CacheSpec  drives WeatherCache.get / WeatherCache.set directly, with  *)
(*              arbitrary keys and values, as a client of the class would; *)
(*   Spec       drives the three WeatherAPI operations as concurrent       *)
(*              requests; each request suspends only at its `await         *)
(*              axios.get(...)`, so every action is one run-to-completion  *)
(*              segment of an async function.                              *)
(* Date.now() is modelled by the variable `now`, which never decreases.    *)
(***************************************************************************)
EXTENDS Integers, Sequences, FiniteSets, TLC

\* ------------------------------------------------------------------ bounds
MaxTime == 2
MaxDuration == 2
MaxRequests == 3

\* --------------------------------------------------------------- variables
VARIABLES
  cache,          \* WeatherCache.cache: Map<string, CacheEntry>, a function on the keys present
  cacheDuration,  \* WeatherCache.cacheDuration (readonly, set by the constructor)
  now,            \* the value Date.now() returns
  reqs,           \* the requests handled by the process, by request id
  storeLog,       \* history: ids of the requests that ran this.cache.set, in the order they ran
  lastSet,        \* history (CacheSpec): per key, the most recent set(key, data) and its time
  prevSet,        \* history (CacheSpec): per key, the set before the most recent one
  lastGet,        \* history (CacheSpec): the most recent get(key), its time and what it returned
  workload,       \* the calls the clients of this run make (fixed from the start)
  probe           \* one application of a route handler or translation: its input and its outcome

vars == <<cache, cacheDuration, now, reqs, storeLog, lastSet, prevSet, lastGet, workload, probe>>

\* JavaScript null, as returned by WeatherCache.get on a miss.
Null == [isNull |-> TRUE]

\* Marks a history slot nothing has been written to.
Nothing == [nothing |-> TRUE]

\* ------------------------------------------------------------ WeatherCache

\* A mutant of WeatherCache_get: the freshness test accepts the deadline itself.
WeatherCache_get_inclusive(c, key, t, duration) ==
  IF key \in DOMAIN c /\ t - c[key].timestamp <= duration
  THEN c[key].data
  ELSE Null

\* A mutant of WeatherCache_get: an entry is returned whatever its age.
WeatherCache_get_ignores_age(c, key, t, duration) ==
  IF key \in DOMAIN c THEN c[key].data ELSE Null

\* get(key), the value returned: the entry's data while
\* Date.now() - entry.timestamp < cacheDuration, null otherwise.
WeatherCache_get(c, key, t, duration) ==
  IF key \in DOMAIN c /\ t - c[key].timestamp < duration
  THEN c[key].data
  ELSE Null

\* A mutant of WeatherCache_get_cache: a hit restarts the clock of the entry
\* (sliding expiration).
WeatherCache_get_cache_sliding(c, key, t, duration) ==
  IF key \in DOMAIN c
  THEN IF t - c[key].timestamp < duration
       THEN [c EXCEPT ![key].timestamp = t]
       ELSE [k \in DOMAIN c \ {key} |-> c[k]]
  ELSE c

\* get(key), the map it leaves: an entry found but not fresh is deleted.
WeatherCache_get_cache(c, key, t, duration) ==
  IF key \in DOMAIN c /\ ~(t - c[key].timestamp < duration)
  THEN [k \in DOMAIN c \ {key} |-> c[k]]
  ELSE c

\* A mutant of WeatherCache_set: an overwrite keeps the timestamp of the entry it replaces.
WeatherCache_set_keeps_timestamp(c, key, data, t) ==
  [k \in DOMAIN c \cup {key} |->
     IF k = key
     THEN [data |-> data,
           timestamp |-> IF key \in DOMAIN c THEN c[key].timestamp ELSE t]
     ELSE c[k]]

\* A mutant of WeatherCache_set: a set also evicts the entries written before now.
WeatherCache_set_evicts_expired(c, key, data, t) ==
  [k \in {j \in DOMAIN c : c[j].timestamp >= t} \cup {key} |->
     IF k = key THEN [data |-> data, timestamp |-> t] ELSE c[k]]

\* set(key, data), the map it leaves: the entry is inserted or replaced whole,
\* stamped with Date.now().
WeatherCache_set(c, key, data, t) ==
  [k \in DOMAIN c \cup {key} |->
     IF k = key THEN [data |-> data, timestamp |-> t] ELSE c[k]]

\* The empty Map of the constructor.
EmptyCache == [k \in {} |-> Nothing]

\* ------------------------------------------------------- upstream provider

\* JavaScript undefined: a property that is not there.
Undefined == [isUndefined |-> TRUE]

\* The location strings clients ask about (a location may hold underscores and
\* digits), and the search queries.
Locations == {"Paris", "paris", "Paris_2", "Paris_3"}
Queries == {"London"}
\* The day counts clients ask forecasts for (3 is the default of getForecast).
DayCounts == {2, 3}
\* The provider's data changes over time: the versions of it a call may see.
Versions == {1, 2}
HoursPerDay == 1

\* The provider's `location` object for a query (it resolves names itself,
\* whatever their case).
ProviderLocation(q) ==
  [name |-> IF q \in {"Paris", "paris"} THEN "Paris" ELSE q,
   region |-> "Region", country |-> "Country",
   lat |-> 48, lon |-> 2, tz_id |-> "Europe/Paris", localtime |-> "2024-01-01 12:00"]

\* response.data of GET /current.json?q=...&aqi=yes
CurrentPayload(q, v) ==
  [location |-> ProviderLocation(q),
   current |->
     [temp_c |-> 17 + v, temp_f |-> 63 + 2 * v,
      condition |-> [text |-> IF v = 1 THEN "Sunny" ELSE "Rain", icon |-> "icon.png", code |-> 1000 + v],
      wind_kph |-> 10 + v, wind_dir |-> "NW", humidity |-> 50 + v,
      feelslike_c |-> 16 + v, feelslike_f |-> 61 + 2 * v, uv |-> 3 + v,
      air_quality |-> [co |-> 200 + v, no2 |-> 10, o3 |-> 60, so2 |-> 1, pm2_5 |-> 5,
                       pm10 |-> 8, us_epa_index |-> 1, gb_defra_index |-> 1]]]

ProviderHour(d, h, v) ==
  [time |-> ToString(d) \o " " \o ToString(h) \o ":00", temp_c |-> 10 + h + v,
   condition |-> [text |-> IF v = 1 THEN "Clear" ELSE "Cloudy", icon |-> "icon.png", code |-> 1000 + v],
   wind_kph |-> 5 + v, wind_dir |-> "N", precip_mm |-> v - 1, humidity |-> 40 + v]

ProviderDay(d, v) ==
  [date |-> "2024-01-0" \o ToString(d),
   day |-> [maxtemp_c |-> 20 + d + v, mintemp_c |-> 10 + d, avgtemp_c |-> 15 + d,
            maxwind_kph |-> 20 + v, totalprecip_mm |-> v - 1, avghumidity |-> 55,
            condition |-> [text |-> IF v = 1 THEN "Sunny" ELSE "Rain", icon |-> "icon.png", code |-> 1000 + v]],
   astro |-> [sunrise |-> "07:00 AM", sunset |-> "05:00 PM"],
   hour |-> [h \in 1..HoursPerDay |-> ProviderHour(d, h - 1, v)]]

\* response.data of GET /forecast.json?q=...&days=...&aqi=yes
ForecastPayload(q, days, v) ==
  [location |-> ProviderLocation(q),
   forecast |-> [forecastday |-> [d \in 1..days |-> ProviderDay(d, v)]]]

\* response.data of GET /search.json?q=...
SearchPayload(q, v) ==
  [i \in 1..v |->
     [id |-> i, name |-> q, region |-> "Region", country |-> "Country",
      lat |-> 50 + i, lon |-> i, url |-> "url"]]

\* The errors axios.get rejects with: a non-success response, or no response at all.
UpstreamErrors ==
  {[isAxiosError |-> TRUE,
    response |-> [status |-> 401, data |-> [error |-> [message |-> "Invalid key"]]]],
   [isAxiosError |-> TRUE, response |-> Undefined]}

\* ---------------------------------------------------------------- WeatherAPI

\* A mutant of CurrentKey: the location is lower-cased before it is used in the key.
CurrentKey_normalised(location) ==
  "current_" \o (IF location = "Paris" THEN "paris" ELSE location)

\* A mutant of CurrentKey: the key is built with the prefix of the forecast keys.
CurrentKey_forecast_prefix(location) == "forecast_" \o location

\* const cacheKey = `current_${location}`
CurrentKey(location) == "current_" \o location

\* A mutant of ForecastKey: the day count is left out of the key.
ForecastKey_without_days(location, days) == "forecast_" \o location

\* const cacheKey = `forecast_${location}_${days}`
ForecastKey(location, days) == "forecast_" \o location \o "_" \o ToString(days)

\* A mutant of WeatherData: the two temperature scales are taken from each other's field.
WeatherData_scales_swapped(data) ==
  [location |->
     [name |-> data.location.name, region |-> data.location.region,
      country |-> data.location.country, lat |-> data.location.lat,
      lon |-> data.location.lon, localTime |-> data.location.localtime],
   current |->
     [tempC |-> data.current.temp_f, tempF |-> data.current.temp_c,
      condition |-> data.current.condition.text,
      windKph |-> data.current.wind_kph, windDir |-> data.current.wind_dir,
      humidity |-> data.current.humidity,
      feelsLikeC |-> data.current.feelslike_c, feelsLikeF |-> data.current.feelslike_f,
      uv |-> data.current.uv, airQuality |-> data.current.air_quality]]

\* The WeatherResponse built from response.data (lines 146-167).
WeatherData(data) ==
  [location |->
     [name |-> data.location.name, region |-> data.location.region,
      country |-> data.location.country, lat |-> data.location.lat,
      lon |-> data.location.lon, localTime |-> data.location.localtime],
   current |->
     [tempC |-> data.current.temp_c, tempF |-> data.current.temp_f,
      condition |-> data.current.condition.text,
      windKph |-> data.current.wind_kph, windDir |-> data.current.wind_dir,
      humidity |-> data.current.humidity,
      feelsLikeC |-> data.current.feelslike_c, feelsLikeF |-> data.current.feelslike_f,
      uv |-> data.current.uv, airQuality |-> data.current.air_quality]]

\* The ForecastResponse built from response.data (lines 190-219).
ForecastData(data) ==
  [location |->
     [name |-> data.location.name, region |-> data.location.region,
      country |-> data.location.country, lat |-> data.location.lat,
      lon |-> data.location.lon],
   forecast |->
     [i \in DOMAIN data.forecast.forecastday |->
        LET day == data.forecast.forecastday[i] IN
        [date |-> day.date, maxTempC |-> day.day.maxtemp_c, minTempC |-> day.day.mintemp_c,
         avgTempC |-> day.day.avgtemp_c, maxWindKph |-> day.day.maxwind_kph,
         totalPrecipMm |-> day.day.totalprecip_mm, avgHumidity |-> day.day.avghumidity,
         condition |-> day.day.condition.text,
         sunrise |-> day.astro.sunrise, sunset |-> day.astro.sunset,
         hourly |->
           [j \in DOMAIN day.hour |->
              LET hour == day.hour[j] IN
              [time |-> hour.time, tempC |-> hour.temp_c, condition |-> hour.condition.text,
               windKph |-> hour.wind_kph, windDir |-> hour.wind_dir,
               precipitation |-> hour.precip_mm, humidity |-> hour.humidity]]]]]

\* The Location[] built from response.data (lines 233-239).
SearchData(data) ==
  [i \in DOMAIN data |->
     [name |-> data[i].name, region |-> data[i].region, country |-> data[i].country,
      lat |-> data[i].lat, lon |-> data[i].lon]]

\* ------------------------------------------------------------------ requests

Requests == 1..MaxRequests

\* A request nobody has made yet.
IdleRequest ==
  [pc |-> "idle", op |-> "none", location |-> "", days |-> 0,
   startTime |-> 0, seenStores |-> 0, upstreamCalls |-> 0,
   response |-> Nothing, result |-> Nothing, storeTime |-> 0]

\* The calls clients make: getCurrentWeather(location), getForecast(location, days),
\* searchLocations(query).
Call(op, location, days) == [op |-> op, location |-> location, days |-> days]
Calls ==
  {Call("current", l, 0) : l \in Locations}
    \cup {Call("forecast", "Paris", d) : d \in DayCounts}
    \cup {Call("search", q, 0) : q \in Queries}

\* A run's clients repeat two of these calls, in any order: two locations that
\* differ in case, two day counts, two operations on one location, a search
\* beside a cached operation.
Workloads ==
  {{Call("current", "Paris", 0), Call("current", "paris", 0)},
   {Call("forecast", "Paris", 2), Call("forecast", "Paris", 3)},
   {Call("current", "Paris", 0), Call("forecast", "Paris", 3)},
   {Call("current", "Paris", 0), Call("search", "London", 0)}}

\* A mutant of IsNext: requests are handled one at a time, a new one waits while
\* any other is suspended.
IsNext_serialised(r) ==
  /\ reqs[r].pc = "idle" /\ \A q \in 1..(r - 1) : reqs[q].pc # "idle"
  /\ \A q \in Requests : reqs[q].pc # "awaiting"

\* Requests are numbered in the order they are made.
IsNext(r) == reqs[r].pc = "idle" /\ \A q \in 1..(r - 1) : reqs[q].pc # "idle"

\* The cache key a request uses (searchLocations uses none).
KeyOf(q) ==
  IF q.op = "current" THEN CurrentKey(q.location)
  ELSE IF q.op = "forecast" THEN ForecastKey(q.location, q.days)
  ELSE ""

\* `if (cachedData)`: null is falsy, every object the gateway stores is truthy.
Truthy(v) == v # Null

\* A mutant of CachedOrFetch: a hit is returned, and the upstream call is made all the same.
CachedOrFetch_always_fetches(q, cachedData) ==
  IF Truthy(cachedData)
  THEN [q EXCEPT !.pc = "returned", !.result = cachedData, !.upstreamCalls = 1]
  ELSE [q EXCEPT !.pc = "awaiting", !.upstreamCalls = 1]

\* Lines 134-138 and 177-181: a truthy cachedData is returned; otherwise axios.get
\* is called and the request suspends at the await.
CachedOrFetch(q, cachedData) ==
  IF Truthy(cachedData)
  THEN [q EXCEPT !.pc = "returned", !.result = cachedData]
  ELSE [q EXCEPT !.pc = "awaiting", !.upstreamCalls = 1]

\* getCurrentWeather(location) up to its return on a hit or its await on a miss.
getCurrentWeather_call(r, location) ==
  /\ IsNext(r) /\ Call("current", location, 0) \in workload
  /\ LET cacheKey == CurrentKey(location)
         cachedData == WeatherCache_get(cache, cacheKey, now, cacheDuration)
         q == [IdleRequest EXCEPT !.op = "current", !.location = location,
                                  !.startTime = now, !.seenStores = Len(storeLog)]
     IN /\ cache' = WeatherCache_get_cache(cache, cacheKey, now, cacheDuration)
        /\ reqs' = [reqs EXCEPT ![r] = CachedOrFetch(q, cachedData)]
  /\ UNCHANGED <<cacheDuration, now, storeLog, lastSet, prevSet, lastGet, workload, probe>>

\* A mutant of StoreAndReturn: the result is returned without being stored.
StoreAndReturn_without_store(c, q, key, data, t) == c

\* A mutant of StoreAndReturn: an entry already there is kept (the first writer wins).
StoreAndReturn_first_wins(c, q, key, data, t) ==
  IF key \in DOMAIN c THEN c ELSE WeatherCache_set(c, key, data, t)

\* this.cache.set(cacheKey, data) of lines 169 and 221, the map it leaves.
StoreAndReturn(c, q, key, data, t) == WeatherCache_set(c, key, data, t)

\* getCurrentWeather after the await: the response is translated, stored and returned.
getCurrentWeather_resume(r, v) ==
  /\ reqs[r].pc = "awaiting" /\ reqs[r].op = "current"
  /\ LET data == CurrentPayload(reqs[r].location, v)
         weatherData == WeatherData(data)
     IN /\ cache' = StoreAndReturn(cache, reqs[r], CurrentKey(reqs[r].location), weatherData, now)
        /\ reqs' = [reqs EXCEPT ![r].pc = "returned", ![r].response = data,
                                ![r].result = weatherData, ![r].storeTime = now]
  /\ storeLog' = Append(storeLog, r)
  /\ UNCHANGED <<cacheDuration, now, lastSet, prevSet, lastGet, workload, probe>>

\* getForecast(location, days) up to its return on a hit or its await on a miss.
getForecast_call(r, location, days) ==
  /\ IsNext(r) /\ Call("forecast", location, days) \in workload
  /\ LET cacheKey == ForecastKey(location, days)
         cachedData == WeatherCache_get(cache, cacheKey, now, cacheDuration)
         q == [IdleRequest EXCEPT !.op = "forecast", !.location = location, !.days = days,
                                  !.startTime = now, !.seenStores = Len(storeLog)]
     IN /\ cache' = WeatherCache_get_cache(cache, cacheKey, now, cacheDuration)
        /\ reqs' = [reqs EXCEPT ![r] = CachedOrFetch(q, cachedData)]
  /\ UNCHANGED <<cacheDuration, now, storeLog, lastSet, prevSet, lastGet, workload, probe>>

\* getForecast after the await: the response is translated, stored and returned.
getForecast_resume(r, v) ==
  /\ reqs[r].pc = "awaiting" /\ reqs[r].op = "forecast"
  /\ LET data == ForecastPayload(reqs[r].location, reqs[r].days, v)
         forecastData == ForecastData(data)
     IN /\ cache' = StoreAndReturn(cache, reqs[r], ForecastKey(reqs[r].location, reqs[r].days),
                                   forecastData, now)
        /\ reqs' = [reqs EXCEPT ![r].pc = "returned", ![r].response = data,
                                ![r].result = forecastData, ![r].storeTime = now]
  /\ storeLog' = Append(storeLog, r)
  /\ UNCHANGED <<cacheDuration, now, lastSet, prevSet, lastGet, workload, probe>>

\* searchLocations(query) up to its await: axios.get is called, the cache is not consulted.
searchLocations_call(r, query) ==
  /\ IsNext(r) /\ Call("search", query, 0) \in workload
  /\ reqs' = [reqs EXCEPT ![r] = [IdleRequest EXCEPT !.pc = "awaiting", !.op = "search",
                                                    !.location = query, !.startTime = now,
                                                    !.seenStores = Len(storeLog),
                                                    !.upstreamCalls = 1]]
  /\ UNCHANGED <<cache, cacheDuration, now, storeLog, lastSet, prevSet, lastGet, workload, probe>>

\* A mutant of SearchCache: the search result is stored like the other results.
SearchCache_stores(c, query, locations, t) ==
  WeatherCache_set(c, "search_" \o query, locations, t)

\* The map searchLocations leaves (lines 225-240): it never touches this.cache.
SearchCache(c, query, locations, t) == c

\* searchLocations after the await: the response is translated and returned.
\* The two arrays are held in the request as records with one field, items, so
\* that they compare with the records the other outcomes are.
searchLocations_resume(r, v) ==
  /\ reqs[r].pc = "awaiting" /\ reqs[r].op = "search"
  /\ LET data == SearchPayload(reqs[r].location, v)
     IN /\ reqs' = [reqs EXCEPT ![r].pc = "returned", ![r].response = [items |-> data],
                                ![r].result = [items |-> SearchData(data)]]
        /\ cache' = SearchCache(cache, reqs[r].location, SearchData(data), now)
  /\ UNCHANGED <<cacheDuration, now, storeLog, lastSet, prevSet, lastGet, workload, probe>>

\* A mutant of Rejection: on an upstream failure the request falls back to a default value.
Rejection_with_default(q, err) ==
  [q EXCEPT !.pc = "returned", !.response = err, !.result = Null]

\* A mutant of Rejection: a failed upstream call is tried once more before the
\* operation gives up.
Rejection_retries(q, err) ==
  IF q.upstreamCalls < 2
  THEN [q EXCEPT !.upstreamCalls = @ + 1]
  ELSE [q EXCEPT !.pc = "thrown", !.response = err, !.result = err]

\* The await of axios.get throws: nothing catches it inside WeatherAPI, so the
\* async function rejects with the error itself.
Rejection(q, err) == [q EXCEPT !.pc = "thrown", !.response = err, !.result = err]

\* The upstream call of a suspended request fails.
axios_get_rejects(r, err) ==
  /\ reqs[r].pc = "awaiting"
  /\ reqs' = [reqs EXCEPT ![r] = Rejection(reqs[r], err)]
  /\ UNCHANGED <<cache, cacheDuration, now, storeLog, lastSet, prevSet, lastGet, workload, probe>>

\* Time passes.
Tick ==
  /\ now < MaxTime
  /\ now' = now + 1
  /\ UNCHANGED <<cache, cacheDuration, reqs, storeLog, lastSet, prevSet, lastGet, workload, probe>>

\* new WeatherAPI(apiKey, cacheDurationMs): an empty cache, no request made.
Init ==
  /\ cache = EmptyCache
  /\ cacheDuration \in 1..MaxDuration
  /\ now = 0
  /\ reqs = [r \in Requests |-> IdleRequest]
  /\ storeLog = <<>>
  /\ lastSet = EmptyCache
  /\ prevSet = EmptyCache
  /\ lastGet = Nothing
  /\ workload \in Workloads
  /\ probe = Nothing

Next ==
  \/ \E r \in Requests, location \in Locations : getCurrentWeather_call(r, location)
  \/ \E r \in Requests, v \in Versions : getCurrentWeather_resume(r, v)
  \/ \E r \in Requests, location \in Locations, days \in DayCounts : getForecast_call(r, location, days)
  \/ \E r \in Requests, v \in Versions : getForecast_resume(r, v)
  \/ \E r \in Requests, query \in Queries : searchLocations_call(r, query)
  \/ \E r \in Requests, v \in Versions : searchLocations_resume(r, v)
  \/ \E r \in Requests, err \in UpstreamErrors : axios_get_rejects(r, err)
  \/ Tick

Spec == Init /\ [][Next]_vars

\* ----------------------------------------------- reading the request history

\* The operations that go through the cache.
Cacheable(q) == q.op \in {"current", "forecast"}

\* Two requests made with the same operation and arguments.
SameCall(a, b) == a.op = b.op /\ a.location = b.location /\ a.days = b.days

\* The request that ran the i-th this.cache.set.
Storer(i) == reqs[storeLog[i]]

\* The position of request r's store in storeLog, 0 when it has not stored.
StoreIndex(r) ==
  IF \E i \in DOMAIN storeLog : storeLog[i] = r
  THEN CHOOSE i \in DOMAIN storeLog : storeLog[i] = r
  ELSE 0

Max(S) == CHOOSE x \in S : \A y \in S : y <= x

\* The stores made for q's call before q started.
StoresSeen(q) == {i \in 1..q.seenStores : SameCall(Storer(i), q)}

\* All the stores made under a key so far.
StoresOfKey(key) ==
  {i \in DOMAIN storeLog : Cacheable(Storer(i)) /\ KeyOf(Storer(i)) = key}

\* q's lookup found its key's entry from store i past its deadline (and deleted it).
ReadExpired(q, i) ==
  /\ q.pc # "idle" /\ Cacheable(q)
  /\ q.seenStores >= i
  /\ q.startTime - Storer(i).storeTime >= cacheDuration

\* The snapshot a request builds from the response it received.
Translation(q) ==
  IF q.op = "current" THEN WeatherData(q.response) ELSE ForecastData(q.response)

\* The entry under key is the one the last store under key wrote, value and write
\* time; it is gone only when a later lookup found it past its deadline.
HoldsLastStore(key) ==
  StoresOfKey(key) # {} =>
    LET i == Max(StoresOfKey(key)) IN
    IF key \in DOMAIN cache
    THEN cache[key] = [data |-> Storer(i).result, timestamp |-> Storer(i).storeTime]
    ELSE \E p \in Requests : KeyOf(reqs[p]) = key /\ ReadExpired(reqs[p], i)

\* q started when no store for its call was inside its freshness window.
FoundNothingFresh(q) ==
  \A i \in StoresSeen(q) : q.startTime - Storer(i).storeTime >= cacheDuration

\* Two requests for one call that both missed before either of them stored.
Racing(a, b) ==
  /\ a # b
  /\ reqs[a].pc # "idle" /\ reqs[b].pc # "idle"
  /\ Cacheable(reqs[a]) /\ SameCall(reqs[a], reqs[b])
  /\ FoundNothingFresh(reqs[a]) /\ FoundNothingFresh(reqs[b])
  /\ StoreIndex(a) = 0 \/ StoreIndex(a) > reqs[b].seenStores
  /\ StoreIndex(b) = 0 \/ StoreIndex(b) > reqs[a].seenStores

\* ------------------------------------------------- WeatherCache on its own

\* The keys and values a client of WeatherCache uses.
CacheKeys == {CurrentKey("Paris"), ForecastKey("Paris", 3)}
CacheValues == {WeatherData(CurrentPayload("Paris", v)) : v \in Versions}

\* The entry of a history map, Nothing when the key has none.
Recorded(h, key) == IF key \in DOMAIN h THEN h[key] ELSE Nothing

\* A history map with one key rewritten.
Record(h, key, e) == [k \in DOMAIN h \cup {key} |-> IF k = key THEN e ELSE h[k]]

\* The most recent get, when it was a get(key) that no set(key, ...) has followed.
GetOf(key) == IF lastGet # Nothing /\ lastGet.key = key THEN lastGet ELSE Nothing

\* cache.set(key, data)
Cache_set(key, data) ==
  /\ cache' = WeatherCache_set(cache, key, data, now)
  /\ lastSet' = Record(lastSet, key, [data |-> data, timestamp |-> now])
  /\ prevSet' = IF key \in DOMAIN lastSet THEN Record(prevSet, key, lastSet[key]) ELSE prevSet
  /\ lastGet' = IF GetOf(key) # Nothing THEN Nothing ELSE lastGet
  /\ UNCHANGED <<cacheDuration, now, reqs, storeLog, workload, probe>>

\* cache.get(key)
Cache_get(key) ==
  /\ cache' = WeatherCache_get_cache(cache, key, now, cacheDuration)
  /\ lastGet' =
       [key |-> key, time |-> now,
        result |-> WeatherCache_get(cache, key, now, cacheDuration),
        earlier |-> IF GetOf(key) # Nothing
                    THEN [time |-> lastGet.time, result |-> lastGet.result]
                    ELSE Nothing]
  /\ UNCHANGED <<cacheDuration, now, reqs, storeLog, lastSet, prevSet, workload, probe>>

\* new WeatherCache(cacheDurationMs)
CacheInit ==
  /\ cache = EmptyCache
  /\ cacheDuration \in 1..MaxDuration
  /\ now = 0
  /\ reqs = [r \in Requests |-> IdleRequest]
  /\ storeLog = <<>>
  /\ lastSet = EmptyCache
  /\ prevSet = EmptyCache
  /\ lastGet = Nothing
  /\ workload = {}
  /\ probe = Nothing

CacheNext ==
  \/ \E key \in CacheKeys, data \in CacheValues : Cache_set(key, data)
  \/ \E key \in CacheKeys : Cache_get(key)
  \/ Tick

CacheSpec == CacheInit /\ [][CacheNext]_vars

\* ------------------------------------------------------------------ claims

\* What the history holds about the most recent get: the set it follows (last)
\* and the set before that one (prev), Nothing where there is none.
GetLast == IF lastGet = Nothing THEN Nothing ELSE Recorded(lastSet, lastGet.key)
GetPrev == IF lastGet = Nothing THEN Nothing ELSE Recorded(prevSet, lastGet.key)

\* C1 (cache freshness): a get(K) that follows set(K, V) at time T, with no set on K
\* in between, returns V when it runs at a time in [T, T + cacheDuration) and null
\* when it runs at a time >= T + cacheDuration, whatever gets ran before it.
C1_CacheFreshness ==
  GetLast # Nothing =>
    /\ lastGet.time >= GetLast.timestamp
    /\ (lastGet.time - GetLast.timestamp < cacheDuration => lastGet.result = GetLast.data)
    /\ (lastGet.time - GetLast.timestamp >= cacheDuration => lastGet.result = Null)

\* A key was set, read fresh after time had passed, and read again at or after
\* its deadline.
C1_Witness ==
  /\ GetLast # Nothing /\ lastGet.earlier # Nothing
  /\ lastGet.earlier.time > GetLast.timestamp
  /\ lastGet.earlier.result = GetLast.data
  /\ lastGet.time - GetLast.timestamp >= cacheDuration
  /\ lastGet.result = Null

\* C2 (overwrite resets the clock): after set(K, V1) at T1 and set(K, V2) at T2 > T1,
\* a get(K) at a time in [T2, T2 + cacheDuration) returns V2, not V1, whether
\* T1 + cacheDuration is still ahead or has passed.
C2_OverwriteResetsClock ==
  (/\ GetPrev # Nothing
   /\ GetLast.timestamp > GetPrev.timestamp
   /\ lastGet.time - GetLast.timestamp < cacheDuration)
  => /\ lastGet.result = GetLast.data
     /\ (GetPrev.data # GetLast.data => lastGet.result # GetPrev.data)

\* A key was overwritten with a different value and read twice inside the second
\* window: once before the first window ended, once after.
C2_Witness ==
  /\ GetPrev # Nothing /\ lastGet.earlier # Nothing
  /\ GetLast.timestamp > GetPrev.timestamp
  /\ GetPrev.data # GetLast.data
  /\ lastGet.earlier.time < GetPrev.timestamp + cacheDuration
  /\ lastGet.earlier.result = GetLast.data
  /\ lastGet.time >= GetPrev.timestamp + cacheDuration
  /\ lastGet.time - GetLast.timestamp < cacheDuration
  /\ lastGet.result = GetLast.data

\* C3 as stated (hit avoids upstream): a call that starts after a store for the same
\* call, inside that store's freshness window, returns with no upstream call and
\* with the value that store wrote.
C3_Original ==
  \A r \in Requests :
    \A i \in StoresSeen(reqs[r]) :
      (Cacheable(reqs[r]) /\ reqs[r].startTime - Storer(i).storeTime < cacheDuration)
      => /\ reqs[r].pc = "returned"
         /\ reqs[r].upstreamCalls = 0
         /\ reqs[r].result = Storer(i).result

\* C3 as amended: such a call returns with no upstream call and with the value of
\* the latest store for the same call made before it started (the value of that
\* store itself unless another request for the call stored after it).
C3_HitAvoidsUpstream ==
  \A r \in Requests :
    \A i \in StoresSeen(reqs[r]) :
      (Cacheable(reqs[r]) /\ reqs[r].startTime - Storer(i).storeTime < cacheDuration)
      => /\ reqs[r].pc = "returned"
         /\ reqs[r].upstreamCalls = 0
         /\ reqs[r].result = Storer(Max(StoresSeen(reqs[r]))).result

\* Two requests stored different values for one call, and a third started inside
\* the window of the first store and was served from the cache.
C3_Witness ==
  \E r \in Requests :
    \E i, j \in StoresSeen(reqs[r]) :
      /\ i < j /\ Storer(i).result # Storer(j).result
      /\ reqs[r].startTime - Storer(i).storeTime < cacheDuration
      /\ reqs[r].pc = "returned" /\ reqs[r].upstreamCalls = 0

\* C4 (expiry forces a refetch): a call that starts when the freshness window of the
\* last store for its call has fully elapsed is not served from the cache: it makes
\* one upstream call, and when that succeeds it returns the translation of the new
\* response and leaves it as the entry, written at the time of the store.
C4_ExpiryForcesRefetch ==
  \A r \in Requests :
    LET q == reqs[r] IN
    (/\ Cacheable(q) /\ StoresSeen(q) # {}
     /\ q.startTime - Storer(Max(StoresSeen(q))).storeTime >= cacheDuration)
    => /\ q.pc \in {"awaiting", "returned", "thrown"}
       /\ q.upstreamCalls = 1
       /\ q.pc = "returned" =>
            /\ q.result = Translation(q)
            /\ StoreIndex(r) > q.seenStores
            /\ q.storeTime >= q.startTime
            /\ q.storeTime > Storer(Max(StoresSeen(q))).storeTime
            /\ HoldsLastStore(KeyOf(q))

\* A call found its entry expired, fetched again, got different data and left it
\* in the cache with the new write time.
C4_Witness ==
  \E r \in Requests :
    LET q == reqs[r] IN
    /\ Cacheable(q) /\ StoresSeen(q) # {}
    /\ q.startTime - Storer(Max(StoresSeen(q))).storeTime >= cacheDuration
    /\ q.pc = "returned"
    /\ q.result # Storer(Max(StoresSeen(q))).result
    /\ KeyOf(q) \in DOMAIN cache
    /\ cache[KeyOf(q)] = [data |-> q.result, timestamp |-> q.storeTime]

\* C5 (upstream failure is propagated, never cached): a request whose upstream call
\* failed has failed with that very error (its status and message), has made no
\* store, and every entry of the cache is one a successful request wrote; nothing
\* stale was returned in place of the failure.
C5_FailurePropagated ==
  \A r \in Requests :
    LET q == reqs[r] IN
    (Cacheable(q) /\ q.response \in UpstreamErrors)
    => /\ q.pc = "thrown"
       /\ q.result = q.response
       /\ StoreIndex(r) = 0
       /\ HoldsLastStore(KeyOf(q))
       /\ KeyOf(q) \in DOMAIN cache => StoresOfKey(KeyOf(q)) # {}

\* A forecast request found an expired entry for its key, its upstream call failed
\* with status 401 and message "Invalid key", and the request failed.
C5_Witness ==
  \E r \in Requests :
    LET q == reqs[r] IN
    /\ q.op = "forecast" /\ q.pc = "thrown"
    /\ q.response.response # Undefined
    /\ q.result.response.status = 401
    /\ q.result.response.data.error.message = "Invalid key"
    /\ StoresSeen(q) # {}
    /\ KeyOf(q) \notin DOMAIN cache

\* C6 (search is never cached): every step of a searchLocations call leaves the
\* cache map as it was, and every such call makes exactly one upstream call,
\* whatever calls came before it.
C6_SearchNeverCached ==
  [][\A r \in Requests :
       (reqs'[r].op = "search" /\ reqs'[r].pc # reqs[r].pc)
       => (cache' = cache /\ reqs'[r].upstreamCalls = 1)]_vars

\* Two searches for the same query each made their upstream call and returned
\* while the cache held an entry.
C6_Witness ==
  \E a, b \in Requests :
    /\ a < b
    /\ reqs[a].op = "search" /\ reqs[b].op = "search"
    /\ reqs[a].location = reqs[b].location
    /\ reqs[a].pc = "returned" /\ reqs[b].pc = "returned"
    /\ reqs[b].startTime >= reqs[a].startTime
    /\ reqs[a].upstreamCalls = 1 /\ reqs[b].upstreamCalls = 1
    /\ DOMAIN cache # {}

\* C7 (key sensitivity, current weather): a getCurrentWeather request is served from
\* the cache only when a request for exactly the same location string stored
\* before it started; otherwise it makes its own upstream call.
C7_CurrentKeySensitivity ==
  \A r \in Requests :
    (reqs[r].op = "current" /\ reqs[r].pc # "idle" /\ StoresSeen(reqs[r]) = {})
    => reqs[r].upstreamCalls = 1

\* "Paris" was fetched and stored, and a request for "paris" that started inside
\* that entry's window made its own upstream call.
C7_Witness ==
  \E a, b \in Requests :
    /\ reqs[a].op = "current" /\ reqs[b].op = "current"
    /\ reqs[a].location = "Paris" /\ reqs[b].location = "paris"
    /\ StoreIndex(a) # 0 /\ StoreIndex(a) <= reqs[b].seenStores
    /\ reqs[b].startTime - reqs[a].storeTime < cacheDuration
    /\ reqs[b].upstreamCalls = 1

\* C8 (forecast key includes the day count): a getForecast request is served from
\* the cache only when a request for the same location and the same day count
\* stored before it started; otherwise it makes its own upstream call.
C8_ForecastKeyIncludesDays ==
  \A r \in Requests :
    (reqs[r].op = "forecast" /\ reqs[r].pc # "idle" /\ StoresSeen(reqs[r]) = {})
    => reqs[r].upstreamCalls = 1

\* A forecast for one day count was stored, and a request for the same location
\* with another day count that started inside its window fetched upstream.
C8_Witness ==
  \E a, b \in Requests :
    /\ reqs[a].op = "forecast" /\ reqs[b].op = "forecast"
    /\ reqs[a].location = reqs[b].location /\ reqs[a].days # reqs[b].days
    /\ StoreIndex(a) # 0 /\ StoreIndex(a) <= reqs[b].seenStores
    /\ reqs[b].startTime - reqs[a].storeTime < cacheDuration
    /\ reqs[b].upstreamCalls = 1

\* C9 (no coalescing, last writer wins): requests for one call that all miss before
\* any of them stores each make their own upstream call, and once none of them is
\* waiting the entry is the one written by the store that ran last, value and
\* write time.
C9_LastWriterWins ==
  \A a, b \in Requests :
    Racing(a, b) =>
      /\ reqs[a].upstreamCalls = 1 /\ reqs[b].upstreamCalls = 1
      /\ (reqs[a].pc = "returned" => StoreIndex(a) # 0)
      /\ (reqs[a].pc # "awaiting" /\ reqs[b].pc # "awaiting")
           => HoldsLastStore(KeyOf(reqs[a]))

\* Two racing requests both succeeded with different data at different times, and
\* the cache holds what the second store wrote.
C9_Witness ==
  \E a, b \in Requests :
    /\ Racing(a, b)
    /\ reqs[a].pc = "returned" /\ reqs[b].pc = "returned"
    /\ StoreIndex(a) < StoreIndex(b)
    /\ reqs[a].result # reqs[b].result
    /\ reqs[a].storeTime < reqs[b].storeTime
    /\ KeyOf(reqs[b]) \in DOMAIN cache
    /\ cache[KeyOf(reqs[b])] = [data |-> reqs[b].result, timestamp |-> reqs[b].storeTime]

Start(r) ==
  \/ \E location \in Locations : getCurrentWeather_call(r, location)
  \/ \E location \in Locations, days \in DayCounts : getForecast_call(r, location, days)
  \/ \E query \in Queries : searchLocations_call(r, query)

\* The promise of axios.get settles for request r and the continuation runs.
Settle(r) ==
  \/ \E v \in Versions : getCurrentWeather_resume(r, v)
  \/ \E v \in Versions : getForecast_resume(r, v)
  \/ \E v \in Versions : searchLocations_resume(r, v)
  \/ \E err \in UpstreamErrors : axios_get_rejects(r, err)

\* axios.get is called without a timeout: the upstream call of the first request
\* may never settle. The calls of the other requests settle, and the event loop
\* runs the continuation of a settled promise.
Answered == Requests \ {1}

\* The clients of the runs checked for progress: one pair of calls with a search
\* and one with a forecast, against a gateway built with the longest duration.
FairWorkloads ==
  {{Call("current", "Paris", 0), Call("forecast", "Paris", 3)},
   {Call("current", "Paris", 0), Call("search", "London", 0)}}

FairInit == Init /\ cacheDuration = MaxDuration /\ workload \in FairWorkloads

FairSpec == FairInit /\ [][Next]_vars /\ \A r \in Answered : WF_vars(Settle(r))

\* C11: while a request is suspended at its upstream call, every other request
\* can still take its next step (the next request can start, a suspended one can
\* settle), and every request whose upstream call settles completes with a
\* result or a failure, also when the first request stays suspended for ever.
C11_RequestsDoNotBlock ==
  /\ [](\A r, o \in Requests :
          (reqs[r].pc = "awaiting" /\ o # r)
          => /\ (reqs[o].pc = "idle" /\ \A q \in 1..(o - 1) : reqs[q].pc # "idle")
                  => ENABLED Start(o)
             /\ reqs[o].pc = "awaiting" => ENABLED Settle(o))
  /\ \A r \in Answered :
        (reqs[r].pc = "awaiting") ~> (reqs[r].pc \in {"returned", "thrown"})

\* The first request is still suspended; after it started, a second request
\* missed, fetched and stored, and a third was served from that entry.
C11_Witness ==
  /\ reqs[1].pc = "awaiting"
  /\ reqs[2].pc = "returned" /\ reqs[2].upstreamCalls = 1
  /\ reqs[3].pc = "returned" /\ reqs[3].upstreamCalls = 0
  /\ SameCall(reqs[1], reqs[2]) /\ SameCall(reqs[2], reqs[3])

\* ------------------------------------------------------------ HTTP handlers

\* obj.f in JavaScript, for an object: undefined when the property is not there.
Get(obj, f) == IF f \in DOMAIN obj THEN obj[f] ELSE Undefined

\* What a property access on undefined throws. It is no AxiosError.
TypeError == [name |-> "TypeError"]

\* axios.isAxiosError(err)
IsAxiosError(err) == "isAxiosError" \in DOMAIN err /\ err.isAxiosError = TRUE

\* The bodies the provider (or a proxy in front of it) sends with a failure;
\* Undefined: no body.
ErrorBodies ==
  {[error |-> [code |-> 2006, message |-> m]] :
     m \in {"Invalid key", "No matching location found.", ""}}
  \cup {[error |-> [code |-> 9999]], [message |-> "Bad Gateway"], Undefined}

UpstreamStatuses == {400, 401, 403, 429, 500, 503}

\* The errors a route handler passes to next(error): an AxiosError with a response,
\* an AxiosError without one (no answer from the network), an error thrown by
\* the translation.
HandledErrors ==
  {[isAxiosError |-> TRUE, response |-> [status |-> st, data |-> body]] :
     st \in UpstreamStatuses, body \in ErrorBodies}
  \cup {[isAxiosError |-> TRUE, response |-> Undefined], TypeError}

\* A mutant of errorHandler: every failure is answered with status 500.
errorHandler_always_500(err) ==
  [status |-> 500,
   body |-> [error |->
     IF IsAxiosError(err)
     THEN LET error == Get(Get(Get(err, "response"), "data"), "error")
          IN IF "message" \in DOMAIN error /\ error.message # ""
             THEN error.message
             ELSE "An error occurred with the weather service"
     ELSE "Internal server error"]]

\* errorHandler (lines 249-259): what res.status(...).json(...) sends.
\* a?.b is Get, since Get of undefined is undefined; x || d is d when x is
\* undefined, 0 or the empty string.
errorHandler(err) ==
  IF IsAxiosError(err)
  THEN LET response == Get(err, "response")
           error == Get(Get(response, "data"), "error")
       IN [status |-> IF "status" \in DOMAIN response /\ response.status # 0
                      THEN response.status ELSE 500,
           body |-> [error |-> IF "message" \in DOMAIN error /\ error.message # ""
                               THEN error.message
                               ELSE "An error occurred with the weather service"]]
  ELSE [status |-> 500, body |-> [error |-> "Internal server error"]]

\* app.use(errorHandler): the handler answers the failure of the probe.
errorHandler_call ==
  /\ "err" \in DOMAIN probe /\ probe.rendered = Nothing
  /\ probe' = [probe EXCEPT !.rendered = errorHandler(probe.err)]
  /\ UNCHANGED <<cache, cacheDuration, now, reqs, storeLog, lastSet, prevSet, lastGet, workload>>

\* A string is the sequence of its characters.
DigitChars == <<"0", "1", "2", "3", "4", "5", "6", "7", "8", "9">>

\* String(n) for an integer n, as a client writes it in ?days=n.
RECURSIVE Decimal(_)
Decimal(n) ==
  IF n < 10 THEN <<DigitChars[n + 1]>>
  ELSE Decimal(n \div 10) \o <<DigitChars[(n % 10) + 1]>>

DecimalChars(n) == IF n < 0 THEN <<"-">> \o Decimal(0 - n) ELSE Decimal(n)

\* The value of a character as a digit, 99 when it is none.
DigitOf(c) ==
  CASE c = "0" -> 0 [] c = "1" -> 1 [] c = "2" -> 2 [] c = "3" -> 3 [] c = "4" -> 4
    [] c = "5" -> 5 [] c = "6" -> 6 [] c = "7" -> 7 [] c = "8" -> 8 [] c = "9" -> 9
    [] c \in {"a", "A"} -> 10 [] c \in {"b", "B"} -> 11 [] c \in {"c", "C"} -> 12
    [] c \in {"d", "D"} -> 13 [] c \in {"e", "E"} -> 14 [] c \in {"f", "F"} -> 15
    [] OTHER -> 99

\* Leading white space removed.
RECURSIVE StripSpace(_)
StripSpace(s) == IF s # <<>> /\ Head(s) = " " THEN StripSpace(Tail(s)) ELSE s

\* The number of leading characters of s that are digits in the radix.
RECURSIVE DigitsLen(_, _)
DigitsLen(s, radix) ==
  IF s # <<>> /\ DigitOf(Head(s)) < radix THEN 1 + DigitsLen(Tail(s), radix) ELSE 0

\* The value of a sequence of digits.
RECURSIVE DigitsValue(_, _)
DigitsValue(s, radix) ==
  IF s = <<>> THEN 0
  ELSE DigitsValue(SubSeq(s, 1, Len(s) - 1), radix) * radix + DigitOf(s[Len(s)])

\* A JavaScript number that is NaN.
NaN == [nan |-> TRUE]

\* parseInt(s) with no radix: white space, a sign, 0x for radix 16, then the
\* longest run of digits; NaN when there is none. What follows the digits is ignored.
parseInt(s) ==
  LET t == StripSpace(s)
      negative == t # <<>> /\ Head(t) = "-"
      u == IF t # <<>> /\ Head(t) \in {"+", "-"} THEN Tail(t) ELSE t
      hex == Len(u) >= 2 /\ u[1] = "0" /\ u[2] \in {"x", "X"}
      radix == IF hex THEN 16 ELSE 10
      w == IF hex THEN SubSeq(u, 3, Len(u)) ELSE u
      n == DigitsLen(w, radix)
  IN IF n = 0 THEN NaN
     ELSE [nan |-> FALSE,
           value |-> (IF negative THEN 0 - 1 ELSE 1) * DigitsValue(SubSeq(w, 1, n), radix)]

\* req.query.days as parseInt reads it: parseInt turns its argument into a string,
\* and undefined into "undefined".
QueryDays(query) ==
  IF "days" \in DOMAIN query THEN query.days
  ELSE <<"u", "n", "d", "e", "f", "i", "n", "e", "d">>

\* const days = parseInt(req.query.days as string) || 3  (x || 3 is 3 when x is
\* NaN or 0).
RouteDays(query) ==
  LET parsed == parseInt(QueryDays(query))
  IN IF parsed.nan \/ parsed.value = 0 THEN 3 ELSE parsed.value

\* The day counts clients write as ?days=N, and other values of the parameter.
DaysSupplied == (0 - 2)..15
OtherDays ==
  {<<"a", "b", "c">>, <<>>, <<"t", "w", "o">>, <<"5", "a", "b", "c">>, <<"3", ".", "7">>,
   <<" ", "4">>, <<"+", "2">>, <<"0", "0", "7">>, <<"0", "x", "1", "0">>, <<"-", "0">>,
   <<"1", "e", "3">>, <<"-">>}

\* req.query of a forecast request: with days, or with another parameter only.
ForecastQueries ==
  {[days |-> DecimalChars(n)] : n \in DaysSupplied}
  \cup {[days |-> p] : p \in OtherDays} \cup {[lang |-> "fr"]}

\* GET /api/weather/forecast/:location (lines 270-278) up to the upstream call of
\* getForecast (lines 173-188): the day count, the cache key and the parameters
\* of the upstream request.
forecastRoute(location, query) ==
  LET days == RouteDays(query)
  IN [days |-> days, cacheKey |-> ForecastKey(location, days),
      params |-> [q |-> location, days |-> days, aqi |-> "yes"]]

\* The forecast route handles the request of the probe.
forecastRoute_call ==
  /\ "query" \in DOMAIN probe /\ probe.called = Nothing
  /\ probe' = [probe EXCEPT !.called = forecastRoute(probe.location, probe.query)]
  /\ UNCHANGED <<cache, cacheDuration, now, reqs, storeLog, lastSet, prevSet, lastGet, workload>>

\* ------------------------------------------- translation of any payload

\* The object has the property (and so obj.f is no undefined).
Has(obj, f) == f \in DOMAIN obj

\* A mutant of WeatherDataOrThrow: the translation reads through missing
\* objects as with ?. and never throws.
WeatherDataOrThrow_hardened(data) ==
  LET location == Get(data, "location")
      current == Get(data, "current")
  IN [location |->
        [name |-> Get(location, "name"), region |-> Get(location, "region"),
         country |-> Get(location, "country"), lat |-> Get(location, "lat"),
         lon |-> Get(location, "lon"), localTime |-> Get(location, "localtime")],
      current |->
        [tempC |-> Get(current, "temp_c"), tempF |-> Get(current, "temp_f"),
         condition |-> Get(Get(current, "condition"), "text"),
         windKph |-> Get(current, "wind_kph"), windDir |-> Get(current, "wind_dir"),
         humidity |-> Get(current, "humidity"),
         feelsLikeC |-> Get(current, "feelslike_c"), feelsLikeF |-> Get(current, "feelslike_f"),
         uv |-> Get(current, "uv"), airQuality |-> Get(current, "air_quality")]]

\* Lines 146-167 for any response.data: a property of a missing object cannot be
\* read (response.data.location.name, response.data.current.temp_c,
\* response.data.current.condition.text throw a TypeError); a missing property of
\* an object that is there reads as undefined.
WeatherDataOrThrow(data) ==
  IF ~Has(data, "location") \/ ~Has(data, "current") \/ ~Has(data.current, "condition")
  THEN TypeError
  ELSE [location |->
          [name |-> Get(data.location, "name"), region |-> Get(data.location, "region"),
           country |-> Get(data.location, "country"), lat |-> Get(data.location, "lat"),
           lon |-> Get(data.location, "lon"), localTime |-> Get(data.location, "localtime")],
        current |->
          [tempC |-> Get(data.current, "temp_c"), tempF |-> Get(data.current, "temp_f"),
           condition |-> Get(data.current.condition, "text"),
           windKph |-> Get(data.current, "wind_kph"), windDir |-> Get(data.current, "wind_dir"),
           humidity |-> Get(data.current, "humidity"),
           feelsLikeC |-> Get(data.current, "feelslike_c"),
           feelsLikeF |-> Get(data.current, "feelslike_f"),
           uv |-> Get(data.current, "uv"), airQuality |-> Get(data.current, "air_quality")]]

\* hour.condition.text throws when an hour has no condition.
HourThrows(hour) == ~Has(hour, "condition")

\* The callback of forecastday.map throws on a day without day, day.condition,
\* astro or hour (undefined.map), or with an hour that throws.
DayThrows(day) ==
  \/ ~Has(day, "day") \/ ~Has(day.day, "condition")
  \/ ~Has(day, "astro") \/ ~Has(day, "hour")
  \/ \E j \in DOMAIN day.hour : HourThrows(day.hour[j])

\* Lines 190-219 for any response.data.
ForecastDataOrThrow(data) ==
  IF \/ ~Has(data, "location")
     \/ ~Has(data, "forecast") \/ ~Has(data.forecast, "forecastday")
     \/ \E i \in DOMAIN data.forecast.forecastday : DayThrows(data.forecast.forecastday[i])
  THEN TypeError
  ELSE
    [location |->
       [name |-> Get(data.location, "name"), region |-> Get(data.location, "region"),
        country |-> Get(data.location, "country"), lat |-> Get(data.location, "lat"),
        lon |-> Get(data.location, "lon")],
     forecast |->
       [i \in DOMAIN data.forecast.forecastday |->
          LET day == data.forecast.forecastday[i] IN
          [date |-> Get(day, "date"),
           maxTempC |-> Get(day.day, "maxtemp_c"), minTempC |-> Get(day.day, "mintemp_c"),
           avgTempC |-> Get(day.day, "avgtemp_c"), maxWindKph |-> Get(day.day, "maxwind_kph"),
           totalPrecipMm |-> Get(day.day, "totalprecip_mm"),
           avgHumidity |-> Get(day.day, "avghumidity"),
           condition |-> Get(day.day.condition, "text"),
           sunrise |-> Get(day.astro, "sunrise"), sunset |-> Get(day.astro, "sunset"),
           hourly |->
             [j \in DOMAIN day.hour |->
                LET hour == day.hour[j] IN
                [time |-> Get(hour, "time"), tempC |-> Get(hour, "temp_c"),
                 condition |-> Get(hour.condition, "text"),
                 windKph |-> Get(hour, "wind_kph"), windDir |-> Get(hour, "wind_dir"),
                 precipitation |-> Get(hour, "precip_mm"),
                 humidity |-> Get(hour, "humidity")]]]]]

\* A record without one of its fields.
Without(rec, f) == [g \in DOMAIN rec \ {f} |-> rec[g]]

\* An object with the property at the path removed; the empty path removes nothing.
RemovePath(d, path) ==
  CASE Len(path) = 0 -> d
    [] Len(path) = 1 -> Without(d, path[1])
    [] Len(path) = 2 -> [d EXCEPT ![path[1]] = Without(@, path[2])]
    [] Len(path) = 3 -> [d EXCEPT ![path[1]][path[2]] = Without(@, path[3])]

\* What a current.json payload may lack: nothing, an object, a field of an object.
CurrentMissing ==
  {<<>>, <<"location">>, <<"current">>, <<"current", "condition", "text">>}
  \cup {<<"location", f>> : f \in DOMAIN ProviderLocation("Paris")}
  \cup {<<"current", f>> : f \in DOMAIN CurrentPayload("Paris", 1).current}

\* What a forecast.json payload may lack: in the payload, in its second day, in
\* the first hour of its first day.
ForecastMissing ==
  {[at |-> "payload", path |-> p] :
     p \in {<<>>, <<"location">>, <<"forecast">>, <<"forecast", "forecastday">>}
           \cup {<<"location", f>> : f \in DOMAIN ProviderLocation("Paris")}}
  \cup {[at |-> "day", path |-> p] :
     p \in {<<"date">>, <<"day">>, <<"astro">>, <<"hour">>, <<"day", "condition", "text">>}
           \cup {<<"day", f>> : f \in DOMAIN ProviderDay(2, 1).day}
           \cup {<<"astro", f>> : f \in DOMAIN ProviderDay(2, 1).astro}}
  \cup {[at |-> "hour", path |-> p] :
     p \in {<<"condition", "text">>} \cup {<<f>> : f \in DOMAIN ProviderHour(1, 0, 1)}}

RemoveForecast(d, m) ==
  CASE m.at = "payload" -> RemovePath(d, m.path)
    [] m.at = "day" -> [d EXCEPT !.forecast.forecastday[2] = RemovePath(@, m.path)]
    [] m.at = "hour" -> [d EXCEPT !.forecast.forecastday[1].hour[1] = RemovePath(@, m.path)]

\* The upstream answers of the probes: the payload of a version with one thing missing.
PayloadProbes ==
  {[op |-> "current", location |-> "Paris", days |-> 0, version |-> v,
    missing |-> [at |-> "payload", path |-> p],
    payload |-> RemovePath(CurrentPayload("Paris", v), p), outcome |-> Nothing] :
     p \in CurrentMissing, v \in Versions}
  \cup {[op |-> "forecast", location |-> "Paris", days |-> 2, version |-> v,
         missing |-> m,
         payload |-> RemoveForecast(ForecastPayload("Paris", 2, v), m), outcome |-> Nothing] :
          m \in ForecastMissing, v \in Versions}

\* The continuation of an operation and of its route handler once axios.get has
\* answered with the payload: a translation that throws rejects the operation
\* before this.cache.set, and the route passes the error to errorHandler; else
\* the result is stored and sent with res.json.
Respond(translated) ==
  IF translated = TypeError
  THEN [pc |-> "thrown", result |-> translated, http |-> errorHandler(translated)]
  ELSE [pc |-> "returned", result |-> translated,
        http |-> [status |-> 200, body |-> translated]]

AfterResponse(key, translated) ==
  /\ probe' = [probe EXCEPT !.outcome = Respond(translated)]
  /\ cache' = IF translated = TypeError THEN cache
              ELSE StoreAndReturn(cache, IdleRequest, key, translated, now)
  /\ UNCHANGED <<cacheDuration, now, reqs, storeLog, lastSet, prevSet, lastGet, workload>>

\* getCurrentWeather after the await, for the payload of the probe.
getCurrentWeather_respond ==
  /\ "payload" \in DOMAIN probe /\ probe.op = "current" /\ probe.outcome = Nothing
  /\ AfterResponse(CurrentKey(probe.location), WeatherDataOrThrow(probe.payload))

\* getForecast after the await, for the payload of the probe.
getForecast_respond ==
  /\ "payload" \in DOMAIN probe /\ probe.op = "forecast" /\ probe.outcome = Nothing
  /\ AfterResponse(ForecastKey(probe.location, probe.days), ForecastDataOrThrow(probe.payload))

\* One request reaches a handler of a gateway that has served nothing yet.
HandlerInit ==
  /\ cache = EmptyCache
  /\ cacheDuration = MaxDuration
  /\ now = 0
  /\ reqs = [r \in Requests |-> IdleRequest]
  /\ storeLog = <<>>
  /\ lastSet = EmptyCache
  /\ prevSet = EmptyCache
  /\ lastGet = Nothing
  /\ workload = {}
  /\ \/ probe \in {[err |-> e, rendered |-> Nothing] : e \in HandledErrors}
     \/ probe \in {[location |-> l, query |-> q, called |-> Nothing] :
                     l \in Locations, q \in ForecastQueries}
     \/ probe \in PayloadProbes

HandlerNext ==
  \/ errorHandler_call
  \/ forecastRoute_call
  \/ getCurrentWeather_respond
  \/ getForecast_respond

HandlerSpec == HandlerInit /\ [][HandlerNext]_vars

\* The messages the gateway sends when the failure brings none.
GenericMessages == {"An error occurred with the weather service", "Internal server error"}

\* C12: the status of the answer to a failure is the upstream status when the
\* failure carries a response, and 500 otherwise; the body is {error: message},
\* the message being the one of the upstream error payload when it has one (a
\* string that is not empty), and a generic message otherwise.
C12_ErrorRendering ==
  ("err" \in DOMAIN probe /\ probe.rendered # Nothing)
  => LET e == probe.err
         carriesResponse == "response" \in DOMAIN e /\ e.response # Undefined
         hasMessage == /\ carriesResponse
                       /\ "error" \in DOMAIN e.response.data
                       /\ "message" \in DOMAIN e.response.data.error
                       /\ e.response.data.error.message # ""
     IN /\ carriesResponse => probe.rendered.status = e.response.status
        /\ ~carriesResponse => probe.rendered.status = 500
        /\ DOMAIN probe.rendered.body = {"error"}
        /\ hasMessage => probe.rendered.body.error = e.response.data.error.message
        /\ ~hasMessage => probe.rendered.body.error \in GenericMessages

\* A failure with status 401 and the message "Invalid key" was answered with both.
C12_Witness ==
  /\ "err" \in DOMAIN probe /\ probe.rendered # Nothing
  /\ "response" \in DOMAIN probe.err /\ probe.err.response # Undefined
  /\ probe.err.response.status = 401
  /\ probe.rendered = [status |-> 401, body |-> [error |-> "Invalid key"]]

\* Values of ?days= that are no number at all.
NonNumericDays == {<<"a", "b", "c">>, <<>>, <<"t", "w", "o">>, <<"-">>}

\* C13 as stated: the day count of the cache key and of the upstream request is 3
\* when days is absent or not numeric, and N for every integer N written as
\* days=N, whatever N is.
C13_Original ==
  ("query" \in DOMAIN probe /\ probe.called # Nothing)
  => LET q == probe.query
         c == probe.called
     IN /\ ~Has(q, "days") => c.days = 3
        /\ (Has(q, "days") /\ q.days \in NonNumericDays) => c.days = 3
        /\ \A n \in DaysSupplied :
             (Has(q, "days") /\ q.days = DecimalChars(n))
             => /\ c.days = n
                /\ c.cacheKey = ForecastKey(probe.location, n)
                /\ c.params.days = n

\* C14: the snapshot a getCurrentWeather request builds on a miss has exactly the
\* documented fields, each equal to the provider field it comes from: temp_c to
\* tempC, temp_f to tempF, condition.text to condition, wind_kph, wind_dir,
\* humidity, feelslike_c, feelslike_f, uv, air_quality as it is, and the
\* location fields (localtime to localTime).
C14_FieldMapping ==
  \A r \in Requests :
    (reqs[r].op = "current" /\ reqs[r].pc = "returned" /\ reqs[r].upstreamCalls = 1)
    => LET data == reqs[r].response
           w == reqs[r].result
       IN /\ DOMAIN w = {"location", "current"}
          /\ DOMAIN w.location = {"name", "region", "country", "lat", "lon", "localTime"}
          /\ DOMAIN w.current = {"tempC", "tempF", "condition", "windKph", "windDir",
                                 "humidity", "feelsLikeC", "feelsLikeF", "uv", "airQuality"}
          /\ w.location.name = data.location.name
          /\ w.location.region = data.location.region
          /\ w.location.country = data.location.country
          /\ w.location.lat = data.location.lat
          /\ w.location.lon = data.location.lon
          /\ w.location.localTime = data.location.localtime
          /\ w.current.tempC = data.current.temp_c
          /\ w.current.tempF = data.current.temp_f
          /\ w.current.condition = data.current.condition.text
          /\ w.current.windKph = data.current.wind_kph
          /\ w.current.windDir = data.current.wind_dir
          /\ w.current.humidity = data.current.humidity
          /\ w.current.feelsLikeC = data.current.feelslike_c
          /\ w.current.feelsLikeF = data.current.feelslike_f
          /\ w.current.uv = data.current.uv
          /\ w.current.airQuality = data.current.air_quality

\* A request fetched the first version of Paris (18 degrees C, 65 F, "Sunny") and
\* returned a snapshot with those values.
C14_Witness ==
  \E r \in Requests :
    /\ reqs[r].op = "current" /\ reqs[r].pc = "returned" /\ reqs[r].upstreamCalls = 1
    /\ reqs[r].response = CurrentPayload("Paris", 1)
    /\ reqs[r].result.current.tempC = 18 /\ reqs[r].result.current.tempF = 65
    /\ reqs[r].result.current.condition = "Sunny"
    /\ reqs[r].result.location.localTime = "2024-01-01 12:00"

\* C15: an entry leaves the map only in a get of its own key that finds it expired
\* (at least cacheDuration after its timestamp) and returns null, and such a get
\* does remove it, and nothing else; a set, a get of a fresh or missing key and
\* the passing of time remove nothing.
\* (A step that leaves lastSet, prevSet and now as they are is a get.)
C15_LazyRemovalOnly ==
  [][/\ \A k \in DOMAIN cache :
          k \notin DOMAIN cache'
          => /\ lastSet' = lastSet /\ prevSet' = prevSet /\ now' = now
             /\ lastGet' # Nothing /\ lastGet'.key = k
             /\ lastGet'.time = now /\ lastGet'.result = Null
             /\ now - cache[k].timestamp >= cacheDuration
             /\ DOMAIN cache' = DOMAIN cache \ {k}
     /\ \A k \in DOMAIN cache :
          (/\ lastSet' = lastSet /\ prevSet' = prevSet /\ now' = now
           /\ lastGet' # Nothing /\ lastGet'.key = k
           /\ now - cache[k].timestamp >= cacheDuration)
          => k \notin DOMAIN cache'
     /\ DOMAIN cache' \ DOMAIN cache # {} => lastSet' # lastSet]_vars

\* One entry was removed by a get that found it expired, while another entry,
\* as old, is still in the map because nothing has read its key.
C15_Witness ==
  /\ lastGet # Nothing /\ lastGet.result = Null
  /\ lastGet.key \in DOMAIN lastSet /\ lastGet.key \notin DOMAIN cache
  /\ \E k \in DOMAIN cache : now - cache[k].timestamp >= cacheDuration

\* C18: a step that is no set (a get, or time passing) leaves the value and the
\* write time of every entry that stays as they were; an entry in the map is
\* always the one its last set wrote; and a get returns null exactly when
\* cacheDuration or more has passed since the last set of its key, however
\* often the key was read in between.
C18_NoSlidingExpiration ==
  [][/\ (lastSet' = lastSet /\ prevSet' = prevSet)
          => \A k \in DOMAIN cache \cap DOMAIN cache' : cache'[k] = cache[k]
     /\ \A k \in DOMAIN cache' : cache'[k] = lastSet'[k]
     /\ (lastGet' # Nothing /\ lastGet'.key \in DOMAIN lastSet')
          => (lastGet'.result = Null
              <=> lastGet'.time - lastSet'[lastGet'.key].timestamp >= cacheDuration)]_vars

\* An entry was read as a hit after the time of its set, and the next get of its
\* key, exactly cacheDuration after the set, returned null.
C18_Witness ==
  /\ lastGet # Nothing /\ lastGet.key \in DOMAIN lastSet
  /\ lastGet.earlier # Nothing
  /\ lastGet.earlier.result = lastSet[lastGet.key].data
  /\ lastGet.earlier.time > lastSet[lastGet.key].timestamp
  /\ lastGet.result = Null
  /\ lastGet.time = lastSet[lastGet.key].timestamp + cacheDuration

\* C16 as stated: whatever the payload lacks, the operation completes with a snapshot.
C16_Original ==
  ("payload" \in DOMAIN probe /\ probe.outcome # Nothing)
  => /\ probe.outcome.pc = "returned"
     /\ probe.outcome.http.status = 200

\* The objects the translations read properties of, by where they are missing.
ReadThrough(op, m) ==
  IF op = "current"
  THEN m.path \in {<<"location">>, <<"current">>, <<"current", "condition">>}
  ELSE \/ m.at = "payload"
          /\ m.path \in {<<"location">>, <<"forecast">>, <<"forecast", "forecastday">>}
       \/ m.at = "day"
          /\ m.path \in {<<"day">>, <<"astro">>, <<"hour">>, <<"day", "condition">>}
       \/ m.at = "hour" /\ m.path = <<"condition">>

\* The snapshot field a provider field goes to.
FieldOf ==
  [name |-> "name", region |-> "region", country |-> "country", lat |-> "lat",
   lon |-> "lon", localtime |-> "localTime",
   temp_c |-> "tempC", temp_f |-> "tempF", wind_kph |-> "windKph",
   wind_dir |-> "windDir", humidity |-> "humidity", feelslike_c |-> "feelsLikeC",
   feelslike_f |-> "feelsLikeF", uv |-> "uv", air_quality |-> "airQuality",
   date |-> "date", maxtemp_c |-> "maxTempC", mintemp_c |-> "minTempC",
   avgtemp_c |-> "avgTempC", maxwind_kph |-> "maxWindKph",
   totalprecip_mm |-> "totalPrecipMm", avghumidity |-> "avgHumidity",
   sunrise |-> "sunrise", sunset |-> "sunset", time |-> "time",
   precip_mm |-> "precipitation", text |-> "condition"]

\* The object with the field a missing provider field goes to made undefined;
\* the object itself when it has no such field.
Undefine(snapshot, f) ==
  IF f \in DOMAIN FieldOf /\ FieldOf[f] \in DOMAIN snapshot
  THEN [snapshot EXCEPT ![FieldOf[f]] = Undefined]
  ELSE snapshot

\* The snapshot of the well-formed payload, with the field that comes from the
\* missing provider field undefined.
Degraded(op, location, days, v, m) ==
  LET leaf == m.path[Len(m.path)]
  IN IF op = "current"
     THEN LET w == WeatherData(CurrentPayload(location, v))
          IN IF m.path = <<>> THEN w
             ELSE IF m.path[1] = "location"
             THEN [w EXCEPT !.location = Undefine(@, leaf)]
             ELSE [w EXCEPT !.current = Undefine(@, leaf)]
     ELSE LET w == ForecastData(ForecastPayload(location, days, v))
          IN IF m.path = <<>> THEN w
             ELSE IF m.at = "payload" THEN [w EXCEPT !.location = Undefine(@, leaf)]
             ELSE IF m.at = "day" THEN [w EXCEPT !.forecast[2] = Undefine(@, leaf)]
             ELSE [w EXCEPT !.forecast[1].hourly[1] = Undefine(@, leaf)]

\* C16 as amended: when the payload lacks an object the translation reads
\* properties of (location, current, current.condition; for a forecast also
\* forecast, forecastday, and in a day: day, day.condition, astro, hour, an
\* hour's condition), the translation throws a TypeError: the operation fails,
\* nothing is stored, and the answer is 500 "Internal server error". When it
\* lacks only a field of an object that is there, the operation completes: the
\* snapshot is the one of the well-formed payload with the field that comes
\* from the missing one undefined, and it is stored and sent.
C16_MissingObjectThrows ==
  ("payload" \in DOMAIN probe /\ probe.outcome # Nothing)
  => LET key == IF probe.op = "current" THEN CurrentKey(probe.location)
                ELSE ForecastKey(probe.location, probe.days)
     IN IF ReadThrough(probe.op, probe.missing)
        THEN /\ probe.outcome.pc = "thrown"
             /\ probe.outcome.result = TypeError
             /\ probe.outcome.http =
                  [status |-> 500, body |-> [error |-> "Internal server error"]]
             /\ key \notin DOMAIN cache
        ELSE /\ probe.outcome.pc = "returned"
             /\ probe.outcome.result =
                  Degraded(probe.op, probe.location, probe.days, probe.version, probe.missing)
             /\ probe.outcome.http = [status |-> 200, body |-> probe.outcome.result]
             /\ key \in DOMAIN cache /\ cache[key].data = probe.outcome.result

\* A current.json payload without `current` made the request fail, and nothing was stored.
C16_Witness ==
  /\ "payload" \in DOMAIN probe /\ probe.outcome # Nothing
  /\ probe.op = "current" /\ probe.missing.path = <<"current">>
  /\ ~Has(probe.payload, "current")
  /\ probe.outcome.pc = "thrown" /\ probe.outcome.http.status = 500
  /\ cache = EmptyCache

\* C17: an invocation makes no upstream call when it is served from the cache
\* and exactly one when it is not, whether that call succeeds or fails (a
\* failed call is not made again); a search always makes exactly one.
C17_AtMostOneUpstreamCall ==
  \A r \in Requests :
    reqs[r].pc # "idle"
    => /\ reqs[r].upstreamCalls \in {0, 1}
       /\ reqs[r].pc \in {"awaiting", "thrown"} => reqs[r].upstreamCalls = 1
       /\ reqs[r].op = "search" => reqs[r].upstreamCalls = 1
       /\ (Cacheable(reqs[r]) /\ FoundNothingFresh(reqs[r])) => reqs[r].upstreamCalls = 1
       /\ (Cacheable(reqs[r]) /\ ~FoundNothingFresh(reqs[r]))
            => reqs[r].upstreamCalls = 0 /\ reqs[r].pc = "returned"

\* Of three requests one missed and fetched, one was served from the cache
\* without a call, and one made its single call, which failed.
C17_Witness ==
  \E a, b, c \in Requests :
    /\ reqs[a].pc = "returned" /\ reqs[a].upstreamCalls = 1
    /\ reqs[b].pc = "returned" /\ reqs[b].upstreamCalls = 0
    /\ SameCall(reqs[a], reqs[b])
    /\ reqs[c].pc = "thrown" /\ reqs[c].upstreamCalls = 1

\* ------------------------------------------------- keys that look alike

\* Clients whose calls have keys that would meet if the parts of a key were
\* told apart wrongly: current_Paris_3 and forecast_Paris_3,
\* forecast_Paris_2_3 and forecast_Paris_2.
KeyWorkloads ==
  {{Call("current", "Paris_3", 0), Call("forecast", "Paris", 3)},
   {Call("forecast", "Paris_2", 3), Call("forecast", "Paris", 2)},
   {Call("current", "Paris_3", 0), Call("search", "London", 0)}}

KeyInit ==
  /\ cache = EmptyCache
  /\ cacheDuration \in 1..MaxDuration
  /\ now = 0
  /\ reqs = [r \in Requests |-> IdleRequest]
  /\ storeLog = <<>>
  /\ lastSet = EmptyCache
  /\ prevSet = EmptyCache
  /\ lastGet = Nothing
  /\ workload \in KeyWorkloads
  /\ probe = Nothing

KeySpec == KeyInit /\ [][Next]_vars

\* The calls whose keys are compared: every operation that is cached, locations
\* with and without underscores and digits, day counts of one and two digits
\* and a negative one.
KeyedCalls ==
  {Call("current", l, 0) :
     l \in {"Paris", "Paris_2", "Paris_3", "Paris_2_3", "forecast_Paris", "2", "_3", ""}}
  \cup {Call("forecast", l, d) :
          l \in {"Paris", "Paris_2", "Paris_3", "Paris_2_3", "Paris_", "2", "_3", ""},
          d \in {0 - 1, 2, 3, 23}}

\* What the provider answers to a call.
UpstreamAnswers(q) ==
  IF q.op = "current" THEN {CurrentPayload(q.location, v) : v \in Versions}
  ELSE {ForecastPayload(q.location, q.days, v) : v \in Versions}

\* C19: every entry of the cache was stored under its key by a request that
\* returned, its value is the translation of an answer of the provider to that
\* request's own operation, location and day count, and every store under the
\* key was made for that same call; the key of a call is the key of no other
\* call (also for locations with underscores and digits), and a request served
\* from the cache receives the translation of an answer to its own call.
C19_CacheProvenance ==
  /\ \A key \in DOMAIN cache :
       \E i \in DOMAIN storeLog :
         LET p == Storer(i)
         IN /\ Cacheable(p) /\ p.pc = "returned" /\ KeyOf(p) = key
            /\ p.response \in UpstreamAnswers(p)
            /\ cache[key].data = Translation(p)
            /\ \A j \in StoresOfKey(key) : SameCall(Storer(j), p)
  /\ \A r \in Requests :
       (reqs[r].pc # "idle" /\ Cacheable(reqs[r]))
       => /\ \A c \in KeyedCalls : KeyOf(c) = KeyOf(reqs[r]) => SameCall(c, reqs[r])
          /\ (reqs[r].pc = "returned" /\ reqs[r].upstreamCalls = 0)
               => \E d \in UpstreamAnswers(reqs[r]) :
                    reqs[r].result = Translation([reqs[r] EXCEPT !.response = d])

\* The cache holds current_Paris_3 and forecast_Paris_3 side by side, and a
\* request for the current weather of "Paris_3" was served from the first.
C19_Witness ==
  /\ CurrentKey("Paris_3") \in DOMAIN cache
  /\ ForecastKey("Paris", 3) \in DOMAIN cache
  /\ \E r \in Requests :
       /\ reqs[r].op = "current" /\ reqs[r].location = "Paris_3"
       /\ reqs[r].pc = "returned" /\ reqs[r].upstreamCalls = 0
       /\ reqs[r].result = cache[CurrentKey("Paris_3")].data

====
